---- MODULE Spec2Model ----
(***************************************************************************)
(* libpi2cslave: the polled slave-mode transfer engine of pi2cslave.c.     *)
(*                                                                         *)
(* The program side is one thread running bsc_i2c_read_poll or             *)
(* bsc_i2c_write, one step per C statement that touches a register, calls  *)
(* the callback or is a cancellation point.  The other side is the BSC     *)
(* peripheral and the bus master: the master may clock a byte out of the   *)
(* transmit path or push a byte into the receive FIFO between any two      *)
(* steps of the program, and a cancellation request may arrive at any      *)
(* time.                                                                   *)
(*                                                                         *)
(* The peripheral is modelled the way pi2cslave.c describes it             *)
(* (lines 205-225): a transmit FIFO, plus one byte the hardware has taken  *)
(* off the FIFO and holds ready to send (txhold); switching transmit       *)
(* enable off drops the held byte, switching it on takes the next byte     *)
(* off the FIFO.  A statement such as bsc[BSC_RSR] &= ~RSR_OE is one step. *)
(*                                                                         *)
(* Spec is the polling engine on a mapped and initialised slave.  LifeSpec *)
(* is the life cycle around it: init_bcm_reg_mem, init_bsc_i2c_slv,        *)
(* bcm_set_gpio_out, bsc_i2c_receiving and the two shutdown functions,     *)
(* each one step, called in any order from the state the process starts    *)
(* in, with /dev/mem and mmap free to fail; the polling functions are      *)
(* called there while the BSC window is not mapped.  A register access     *)
(* through a pointer that maps nothing is undefined: the process is killed *)
(* by a signal (pc = "fault") or runs on with what it read (pc = "wild").  *)
(***************************************************************************)
EXTENDS Integers, Sequences, FiniteSets, TLC

(* ---------------------------------------------------------------- bounds *)
\* Depth of the hardware FIFOs in the model.  pi2cslave.c never uses
\* FIFO_LEN (16 on the BCM283x): it only looks at the flag register.
FifoDepth == 2
\* Largest len argument of bsc_i2c_read_poll.
MaxLen == 3
\* Largest number of callback invocations within one bsc_i2c_write call.
MaxCalls == 4

(* ----------------------------------------------- pi2cslave.h constants *)
CR_RXE == 512
CR_TXE == 256
CR_BRK == 128
CR_I2C == 4
CR_EN == 1

FR_RXFLEVEL_OFF == 11
FR_TXFLEVEL_OFF == 6
FR_TXFE == 16
FR_RXFF == 8
FR_TXFF == 4
FR_RXFE == 2

RSR_UE == 2
RSR_OE == 1

FR_RXBUSY == 32

BSC_RSR == 1
BSC_SLV == 2
BSC_CR == 3
BSC_IMSC == 6
BSC_ICR == 9

GPIO_COUNT == 28
GPSET0 == 28
GPCLR0 == 40
GPIO_FUN_IN == 0
GPIO_FUN_OUT == 1
GPIO_FUN_ALT3 == 7
GPIO_FUN_MASK == 7
GPIO_FUN_SHIFT == 3
GPIO_FUN_PER_REG == 10
GPIO_SDA == 18
GPIO_SCL == 19

GPIO_STATE_FLOAT == 0
GPIO_STATE_LOW == 1
GPIO_STATE_HIGH == 2

\* the 0xf written to bsc[BSC_IMSC] and bsc[BSC_ICR]
IrqAll == 15

\* uint16_t addr_t
AddrModulus == 65536
\* the 0x1F of FR_TXFLEVEL / FR_RXFLEVEL: a five-bit level field
LevelModulus == 32
\* the 0xFF of buf[read] = bsc[BSC_DR] & 0xFF
ByteModulus == 256

(* ------------------------------------------------------- inputs drawn *)
\* bytes the master writes to the slave
RxBytes == {170, 187}
\* the callback, when it supplies a byte for address a, supplies this one
\* (a register file read back by address); whether it supplies one is free
CbByte(a) == a % ByteModulus
\* start addresses handed to bsc_i2c_write
StartAddrs == {0, AddrModulus - 2}
\* what the data register shows above its low eight bits
DrHighBits == {0, 1}
\* the address the polled slave of Spec was initialised with
PolledAddr == 132
\* i2c_addr arguments of init_bsc_i2c_slv (uint8_t)
SlvAddrs == {1, PolledAddr, ByteModulus - 1}
\* what open("/dev/mem") returns: -1, or a descriptor
OpenResults == {-1, 3}
\* what mmap returns: the address of the mapping, or MAP_FAILED ((void *) -1);
\* it never returns NULL for these calls
MmapResults == {"mapped", "MAP_FAILED"}
\* gpio arguments of bcm_set_gpio_out
SetPins == {-1, 17, GPIO_COUNT - 1, GPIO_COUNT}
\* state arguments of bcm_set_gpio_out: the enumerators and one value beyond
SetStates == {GPIO_STATE_FLOAT, GPIO_STATE_LOW, GPIO_STATE_HIGH,
              GPIO_STATE_HIGH + 1}
\* the function-select words of the GPIO window
GpioRegs == 0 .. (GPIO_COUNT - 1) \div GPIO_FUN_PER_REG

VARIABLES
    rxfifo,     \* hardware: receive FIFO, oldest byte first
    txfifo,     \* hardware: transmit FIFO, oldest byte first
    txhold,     \* hardware: the byte taken off the TX FIFO, ready to send
    rsr,        \* hardware: bsc[BSC_RSR]
    cr,         \* hardware: bsc[BSC_CR]
    pc,         \* the thread's position
    cancelReq,  \* a pthread_cancel request is pending
    bufNull,    \* bsc_i2c_read_poll: buf == NULL
    buf,        \* bsc_i2c_read_poll: bytes stored in buf[0..read-1]
    len,        \* bsc_i2c_read_poll: len (counts down)
    read,       \* bsc_i2c_read_poll: read
    addr,       \* bsc_i2c_write: addr
    offset,     \* bsc_i2c_write: offset
    byte,       \* bsc_i2c_write: byte the callback stored
    ret,        \* value computed for / returned by the current call
    h,          \* history of the current call (never read by the program)
    mem_fd,     \* static int mem_fd
    bsc,        \* static pointer bsc: "NULL", "MAP_FAILED" or "mapped"
    gpio_reg,   \* static pointer gpio_reg: "NULL", "MAP_FAILED" or "mapped"
    gpio,       \* hardware: the function-select words of the GPIO window
    slv,        \* hardware: bsc[BSC_SLV]
    lc,         \* history of the latest life-cycle call (never read)
    sys         \* the kernel's view of the descriptor and the mappings

vars == <<rxfifo, txfifo, txhold, rsr, cr, pc, cancelReq, bufNull, buf, len,
          read, addr, offset, byte, ret, h,
          mem_fd, bsc, gpio_reg, gpio, slv, lc, sys>>

hw == <<rxfifo, txfifo, txhold, rsr, cr>>
rdLocals == <<bufNull, buf, len, read>>
wrLocals == <<addr, offset, byte>>
life == <<mem_fd, bsc, gpio_reg, gpio, slv, lc, sys>>

\* where the thread is once it has used a pointer that maps nothing: killed
\* by a signal, or running on with whatever the access gave
UBPcs == {"fault", "wild"}

(* ------------------------------------------------------ bit arithmetic *)
\* v & m # 0, for a one-bit mask m
HasBit(v, m) == (v \div m) % 2 = 1
\* v & ~m, for a one-bit mask m
ClearBit(v, m) == IF HasBit(v, m) THEN v - m ELSE v
\* v | m, for a one-bit mask m
SetBit(v, m) == IF HasBit(v, m) THEN v ELSE v + m

\* a & b
RECURSIVE BitAnd(_, _)
BitAnd(a, b) ==
    IF a = 0 \/ b = 0
    THEN 0
    ELSE (a % 2) * (b % 2) + 2 * BitAnd(a \div 2, b \div 2)

\* a | b
RECURSIVE BitOr(_, _)
BitOr(a, b) ==
    IF a = 0 THEN b
    ELSE IF b = 0 THEN a
    ELSE (IF (a % 2) + (b % 2) > 0 THEN 1 ELSE 0)
         + 2 * BitOr(a \div 2, b \div 2)

\* a & ~m
BitClear(a, m) == a - BitAnd(a, m)

(* ------------------------------------------------- the BSC peripheral *)
\* bsc[BSC_FR] as the hardware presents it
FR ==
    (IF rxfifo = <<>> THEN FR_RXFE ELSE 0)
    + (IF Len(txfifo) = FifoDepth THEN FR_TXFF ELSE 0)
    + (IF Len(rxfifo) = FifoDepth THEN FR_RXFF ELSE 0)
    + (IF txfifo = <<>> THEN FR_TXFE ELSE 0)
    + Len(txfifo) * (2 ^ FR_TXFLEVEL_OFF)
    + Len(rxfifo) * (2 ^ FR_RXFLEVEL_OFF)

RX_EMPTY == HasBit(FR, FR_RXFE)
GET_FR_TXFLEVEL == (FR \div (2 ^ FR_TXFLEVEL_OFF)) % LevelModulus

\* With transmit enabled and no byte held, the hardware takes the next byte
\* off the FIFO: <<fifo, hold>> after that.
HwStage(c, f, hd) ==
    IF HasBit(c, CR_TXE) /\ hd = <<>> /\ f # <<>>
    THEN <<Tail(f), <<Head(f)>>>>
    ELSE <<f, hd>>

\* A write of value c to bsc[BSC_CR]: disabling transmit drops the held byte,
\* enabling it takes the next one off the FIFO.
HwWriteCR(c) ==
    LET hd == IF HasBit(c, CR_TXE) THEN txhold ELSE <<>>
        st == HwStage(c, txfifo, hd)
    IN  /\ cr' = c
        /\ txfifo' = st[1]
        /\ txhold' = st[2]

\* A write of byte b to bsc[BSC_DR]: queued unless the FIFO is full.
HwWriteDR(b) ==
    LET f  == IF Len(txfifo) < FifoDepth THEN Append(txfifo, b) ELSE txfifo
        st == HwStage(cr, f, txhold)
    IN  /\ txfifo' = st[1]
        /\ txhold' = st[2]

\* A read of bsc[BSC_DR] pops the receive FIFO; hi is what the register shows
\* above the data byte.
HwReadDR(hi) ==
    (IF rxfifo = <<>> THEN 0 ELSE Head(rxfifo)) + ByteModulus * hi

(* ------------------------------------------------------------ history *)
NoHist ==
    [ op |-> "none",       \* the call in progress
      rx0 |-> <<>>,        \* receive FIFO at the moment of the call
      len0 |-> 0,          \* len argument of the call
      addr0 |-> 0,         \* addr argument of the call
      cr0 |-> 0,           \* control register at the moment of the call
      regAcc |-> 0,        \* register accesses made by bsc_i2c_read_poll
      pushed |-> 0,        \* bytes the receive FIFO accepted during the call
      oeSeen |-> 0,        \* overruns the call has found and cleared
      ueSeen |-> FALSE,    \* this pass of the inner loop cleared an underrun
      calls |-> 0,         \* callback invocations
      cbTrue |-> 0,        \* callback invocations that returned true
      falseAt |-> -1,      \* offset when the callback first returned false
      sent |-> 0,          \* bytes the master clocked out during the call
      lvl0 |-> -1,         \* TX FIFO level when the flush started
      toggles |-> 0,       \* off/on toggles of CR_TXE made by the flush
      since |-> 0 ]        \* steps taken with a cancellation request pending

Touch(n) == [h EXCEPT !.regAcc = @ + n]

\* the latest life-cycle call
NoCall ==
    [ op |-> "none",       \* the function called
      prevStop |-> FALSE,  \* the call before it was shutdown_bsc_i2c_slv
      arg |-> <<>>,        \* its arguments
      ret |-> "none",      \* "true" or "false" once it has returned one
      log |-> <<>>,        \* its register writes and release calls, in order
      pre |-> [bsc |-> "NULL", gpio_reg |-> "NULL"] ]  \* pointers at entry

Called(op, arg, r, log) ==
    [ op |-> op, prevStop |-> (lc.op = "shutdown_bsc_i2c_slv"),
      arg |-> arg, ret |-> r, log |-> log,
      pre |-> [bsc |-> bsc, gpio_reg |-> gpio_reg] ]

\* what the kernel holds for the process
NoSys ==
    [ fdOpen |-> FALSE,    \* the descriptor in mem_fd is open
      bscLive |-> FALSE,   \* the address in bsc is a live mapping
      gpioLive |-> FALSE,  \* the address in gpio_reg is a live mapping
      badRel |-> FALSE ]   \* close or munmap was called on what is not held

(* ----------------------------------------------------------- initial *)
\* After init_bsc_i2c_slv: the device is enabled, the FIFOs are empty.
Init ==
    /\ rxfifo = <<>>
    /\ txfifo = <<>>
    /\ txhold = <<>>
    /\ rsr = 0
    /\ cr = CR_TXE + CR_RXE + CR_I2C + CR_EN
    /\ pc = "idle"
    /\ cancelReq = FALSE
    /\ bufNull = FALSE
    /\ buf = <<>>
    /\ len = 0
    /\ read = 0
    /\ addr = 0
    /\ offset = 0
    /\ byte = 0
    /\ ret = 0
    /\ h = NoHist
    /\ mem_fd \in OpenResults \ {-1}
    /\ bsc = "mapped"
    /\ gpio_reg = "mapped"
    /\ gpio = [r \in GpioRegs |->
                 IF r = GPIO_SDA \div GPIO_FUN_PER_REG
                 THEN GPIO_FUN_ALT3
                        * 2 ^ ((GPIO_SDA % GPIO_FUN_PER_REG) * GPIO_FUN_SHIFT)
                      + GPIO_FUN_ALT3
                        * 2 ^ ((GPIO_SCL % GPIO_FUN_PER_REG) * GPIO_FUN_SHIFT)
                 ELSE 0]
    /\ slv = PolledAddr \div 2
    /\ lc = NoCall
    /\ sys = [NoSys EXCEPT !.fdOpen = TRUE, !.bscLive = TRUE,
                           !.gpioLive = TRUE]

\* The process has started: nothing opened or mapped, the peripheral as a
\* reset leaves it.
InitLife ==
    /\ rxfifo = <<>>
    /\ txfifo = <<>>
    /\ txhold = <<>>
    /\ rsr = 0
    /\ cr = 0
    /\ pc = "idle"
    /\ cancelReq = FALSE
    /\ bufNull = FALSE
    /\ buf = <<>>
    /\ len = 0
    /\ read = 0
    /\ addr = 0
    /\ offset = 0
    /\ byte = 0
    /\ ret = 0
    /\ h = NoHist
    /\ mem_fd = -1
    /\ bsc = "NULL"
    /\ gpio_reg = "NULL"
    /\ gpio = [r \in GpioRegs |-> 0]
    /\ slv = 0
    /\ lc = NoCall
    /\ sys = NoSys

(* ------------------------------------------------ cancellation points *)
\* One more step of the thread; counted while a cancellation is pending.
Step(hh) == [hh EXCEPT !.since = IF cancelReq THEN @ + 1 ELSE @]

\* pthread_testcancel(): the thread ends here if a request is pending.
TestCancel(next) == pc' = IF cancelReq THEN "cancelled" ELSE next

(* -------------------------------------------------- bsc_i2c_read_poll *)
\* a slip: bsc[BSC_RSR] = 0 clears every status bit
ClearOE_all(r) == 0

\* bsc[BSC_RSR] &= ~RSR_OE
ClearOE(r) == ClearBit(r, RSR_OE)

\* a slip: the data register stored unmasked
MaskByte_none(v) == v

\* bsc[BSC_DR] & 0xFF
MaskByte(v) == v % ByteModulus

\* the caller enters bsc_i2c_read_poll(buf, n)
CallRead ==
    /\ pc = "idle"
    /\ \E n \in 0..MaxLen, isNull \in BOOLEAN :
        /\ len' = n
        /\ bufNull' = isNull
        /\ h' = [NoHist EXCEPT !.op = "read", !.rx0 = rxfifo, !.len0 = n]
    /\ buf' = <<>>
    /\ read' = 0
    /\ pc' = "rp_tc0"
    /\ UNCHANGED <<hw, cancelReq, life, wrLocals, ret>>

\* line 151
RpTestCancel0 ==
    /\ pc = "rp_tc0"
    /\ TestCancel("rp_chk")
    /\ h' = Step(h)
    /\ UNCHANGED <<hw, cancelReq, life, rdLocals, wrLocals, ret>>

\* a slip: only len == 0 is checked, not buf == NULL
RpCheckArgs_lenOnly ==
    /\ pc = "rp_chk"
    /\ IF len = 0
       THEN pc' = "rp_done" /\ ret' = 0
       ELSE pc' = "rp_loop" /\ ret' = ret
    /\ read' = 0
    /\ h' = Step(h)
    /\ UNCHANGED <<hw, cancelReq, life, bufNull, buf, len, wrLocals>>

\* lines 152-156
RpCheckArgs ==
    /\ pc = "rp_chk"
    /\ IF len = 0 \/ bufNull
       THEN pc' = "rp_done" /\ ret' = 0
       ELSE pc' = "rp_loop" /\ ret' = ret
    /\ read' = 0
    /\ h' = Step(h)
    /\ UNCHANGED <<hw, cancelReq, life, bufNull, buf, len, wrLocals>>

\* a slip: the loop runs while !RX_EMPTY(), whatever len is
RpLoopTest_noLen ==
    /\ pc = "rp_loop"
    /\ IF ~RX_EMPTY
       THEN pc' = "rp_tc" /\ ret' = ret
       ELSE pc' = "rp_done" /\ ret' = read
    /\ h' = Step(Touch(1))
    /\ UNCHANGED <<hw, cancelReq, life, rdLocals, wrLocals>>

\* line 162, the loop condition len && !RX_EMPTY(); line 173 when it fails
RpLoopTest ==
    /\ pc = "rp_loop"
    /\ IF len # 0 /\ bsc # "mapped"
       THEN pc' \in UBPcs /\ ret' = ret
       ELSE IF len # 0 /\ ~RX_EMPTY
            THEN pc' = "rp_tc" /\ ret' = ret
            ELSE pc' = "rp_done" /\ ret' = read
    /\ h' = Step(Touch(IF len # 0 THEN 1 ELSE 0))
    /\ UNCHANGED <<hw, cancelReq, life, rdLocals, wrLocals>>

\* line 163
RpTestCancel ==
    /\ pc = "rp_tc"
    /\ TestCancel("rp_oe")
    /\ h' = Step(h)
    /\ UNCHANGED <<hw, cancelReq, life, rdLocals, wrLocals, ret>>

\* line 164
RpCheckOE ==
    /\ pc = "rp_oe"
    /\ pc' = IF HasBit(rsr, RSR_OE) THEN "rp_clr" ELSE "rp_pop"
    /\ h' = Step(Touch(1))
    /\ UNCHANGED <<hw, cancelReq, life, rdLocals, wrLocals, ret>>

\* lines 166-167
RpClearOE ==
    /\ pc = "rp_clr"
    /\ rsr' = ClearOE(rsr)
    /\ pc' = "rp_pop"
    /\ h' = Step([Touch(2) EXCEPT !.oeSeen = @ + 1])
    /\ UNCHANGED <<rxfifo, txfifo, txhold, cr, cancelReq, life, rdLocals, wrLocals, ret>>

\* lines 169-170, and the len-- of line 162
RpPop ==
    /\ pc = "rp_pop"
    /\ \E hi \in DrHighBits : buf' = Append(buf, MaskByte(HwReadDR(hi)))
    /\ rxfifo' = IF rxfifo = <<>> THEN rxfifo ELSE Tail(rxfifo)
    /\ read' = read + 1
    /\ len' = len - 1
    /\ pc' = "rp_loop"
    /\ h' = Step(Touch(1))
    /\ UNCHANGED <<txfifo, txhold, rsr, cr, cancelReq, life, bufNull, wrLocals, ret>>

(* ------------------------------------------------------ bsc_i2c_write *)
\* a slip: bsc[BSC_RSR] = 0 clears every status bit
ClearUE_all(r) == 0

\* bsc[BSC_RSR] &= ~RSR_UE
ClearUE(r) == ClearBit(r, RSR_UE)

\* a slip: the staged byte not taken off
RetExpr_noStaged(off, lvl) == off - lvl

\* offset - GET_FR_TXFLEVEL() - 1
RetExpr(off, lvl) == off - lvl - 1

\* a slip: the value returned unclamped
RetClamp_none(r) == r

\* (ret < 0) ? 0 : ret
RetClamp(r) == IF r < 0 THEN 0 ELSE r

\* the caller enters bsc_i2c_write(cb, a)
CallWrite ==
    /\ pc = "idle"
    /\ \E a \in StartAddrs :
        /\ addr' = a
        /\ h' = [NoHist EXCEPT !.op = "write", !.addr0 = a, !.cr0 = cr]
    /\ pc' = "w_tc0"
    /\ UNCHANGED <<hw, cancelReq, life, rdLocals, offset, byte, ret>>

\* lines 178-179
WTestCancel0 ==
    /\ pc = "w_tc0"
    /\ TestCancel("w_outer")
    /\ offset' = 0
    /\ h' = Step(h)
    /\ UNCHANGED <<hw, cancelReq, life, rdLocals, addr, byte, ret>>

\* line 182, the outer loop condition RX_EMPTY()
WOuterTest ==
    /\ pc = "w_outer"
    /\ IF bsc # "mapped"
       THEN pc' \in UBPcs
       ELSE pc' = IF RX_EMPTY THEN "w_tc1" ELSE "w_ret"
    /\ h' = Step(h)
    /\ UNCHANGED <<hw, cancelReq, life, rdLocals, wrLocals, ret>>

\* line 183
WTestCancel1 ==
    /\ pc = "w_tc1"
    /\ TestCancel("w_inner")
    /\ h' = Step(h)
    /\ UNCHANGED <<hw, cancelReq, life, rdLocals, wrLocals, ret>>

\* line 185, the inner loop condition !(bsc[BSC_FR] & FR_TXFF)
WInnerTest ==
    /\ pc = "w_inner"
    /\ pc' = IF ~HasBit(FR, FR_TXFF) THEN "w_tc2" ELSE "w_sleep"
    /\ h' = Step([h EXCEPT !.ueSeen = FALSE])
    /\ UNCHANGED <<hw, cancelReq, life, rdLocals, wrLocals, ret>>

\* a slip: no cancellation point inside the inner loop
WTestCancel2_none ==
    /\ pc = "w_tc2"
    /\ pc' = "w_ue"
    /\ h' = Step(h)
    /\ UNCHANGED <<hw, cancelReq, life, rdLocals, wrLocals, ret>>

\* line 186
WTestCancel2 ==
    /\ pc = "w_tc2"
    /\ TestCancel("w_ue")
    /\ h' = Step(h)
    /\ UNCHANGED <<hw, cancelReq, life, rdLocals, wrLocals, ret>>

\* line 188
WCheckUE ==
    /\ pc = "w_ue"
    /\ pc' = IF HasBit(rsr, RSR_UE) THEN "w_clr" ELSE "w_cb"
    /\ h' = Step(h)
    /\ UNCHANGED <<hw, cancelReq, life, rdLocals, wrLocals, ret>>

\* lines 190-191
WClearUE ==
    /\ pc = "w_clr"
    /\ rsr' = ClearUE(rsr)
    /\ pc' = "w_cb"
    /\ h' = Step([h EXCEPT !.ueSeen = TRUE])
    /\ UNCHANGED <<rxfifo, txfifo, txhold, cr, cancelReq, life, rdLocals, wrLocals, ret>>

\* a slip: a false callback leaves the outer loop too
WCallback_leaves ==
    /\ pc = "w_cb"
    /\ h.calls < MaxCalls
    /\ addr' = (addr + 1) % AddrModulus
    /\ \E r \in BOOLEAN :
        IF r
        THEN /\ byte' = CbByte(addr)
             /\ pc' = "w_dr"
             /\ h' = Step([h EXCEPT !.calls = @ + 1, !.cbTrue = @ + 1])
        ELSE /\ byte' = byte
             /\ pc' = "w_ret"
             /\ h' = Step([h EXCEPT !.calls = @ + 1,
                                    !.falseAt = IF @ < 0 THEN offset ELSE @])
    /\ UNCHANGED <<hw, cancelReq, life, rdLocals, offset, ret>>

\* a slip: the address advanced only when the callback yields a byte
WCallback_addrOnTrue ==
    /\ pc = "w_cb"
    /\ h.calls < MaxCalls
    /\ \E r \in BOOLEAN :
        IF r
        THEN /\ addr' = (addr + 1) % AddrModulus
             /\ byte' = CbByte(addr)
             /\ pc' = "w_dr"
             /\ h' = Step([h EXCEPT !.calls = @ + 1, !.cbTrue = @ + 1])
        ELSE /\ addr' = addr
             /\ byte' = byte
             /\ pc' = "w_sleep"
             /\ h' = Step([h EXCEPT !.calls = @ + 1,
                                    !.falseAt = IF @ < 0 THEN offset ELSE @])
    /\ UNCHANGED <<hw, cancelReq, life, rdLocals, offset, ret>>

\* line 194: cb(addr++, &byte); on false the break of line 199
WCallback ==
    /\ pc = "w_cb"
    /\ h.calls < MaxCalls
    /\ addr' = (addr + 1) % AddrModulus
    /\ \E r \in BOOLEAN :
        IF r
        THEN /\ byte' = CbByte(addr)
             /\ pc' = "w_dr"
             /\ h' = Step([h EXCEPT !.calls = @ + 1, !.cbTrue = @ + 1])
        ELSE /\ byte' = byte
             /\ pc' = "w_sleep"
             /\ h' = Step([h EXCEPT !.calls = @ + 1,
                                    !.falseAt = IF @ < 0 THEN offset ELSE @])
    /\ UNCHANGED <<hw, cancelReq, life, rdLocals, offset, ret>>

\* lines 195-196
WWriteDR ==
    /\ pc = "w_dr"
    /\ HwWriteDR(byte)
    /\ offset' = offset + 1
    /\ pc' = "w_inner"
    /\ h' = Step(h)
    /\ UNCHANGED <<rxfifo, rsr, cr, cancelReq, life, rdLocals, addr, byte, ret>>

\* line 202
WSleep ==
    /\ pc = "w_sleep"
    /\ pc' = "w_outer"
    /\ h' = Step([h EXCEPT !.ueSeen = FALSE])
    /\ UNCHANGED <<hw, cancelReq, life, rdLocals, wrLocals, ret>>

\* line 208
WComputeRet ==
    /\ pc = "w_ret"
    /\ ret' = RetExpr(offset, GET_FR_TXFLEVEL)
    /\ pc' = "w_fl"
    /\ h' = Step(h)
    /\ UNCHANGED <<hw, cancelReq, life, rdLocals, wrLocals>>

\* a slip: no last toggle once the FIFO reports empty
WFlushTest_noLast ==
    /\ pc = "w_fl"
    /\ pc' = IF ~HasBit(FR, FR_TXFE) THEN "w_off" ELSE "w_clamp"
    /\ h' = Step([h EXCEPT !.lvl0 = IF @ < 0 THEN Len(txfifo) ELSE @])
    /\ UNCHANGED <<hw, cancelReq, life, rdLocals, wrLocals, ret>>

\* line 226, the flush loop condition !(bsc[BSC_FR] & FR_TXFE)
WFlushTest ==
    /\ pc = "w_fl"
    /\ pc' = IF ~HasBit(FR, FR_TXFE) THEN "w_off" ELSE "w_off2"
    /\ h' = Step([h EXCEPT !.lvl0 = IF @ < 0 THEN Len(txfifo) ELSE @])
    /\ UNCHANGED <<hw, cancelReq, life, rdLocals, wrLocals, ret>>

\* line 227
WFlushOff ==
    /\ pc = "w_off"
    /\ HwWriteCR(ClearBit(cr, CR_TXE))
    /\ pc' = "w_on"
    /\ h' = Step(h)
    /\ UNCHANGED <<rxfifo, rsr, cancelReq, life, rdLocals, wrLocals, ret>>

\* line 228
WFlushOn ==
    /\ pc = "w_on"
    /\ HwWriteCR(SetBit(cr, CR_TXE))
    /\ pc' = "w_fl"
    /\ h' = Step([h EXCEPT !.toggles = @ + 1])
    /\ UNCHANGED <<rxfifo, rsr, cancelReq, life, rdLocals, wrLocals, ret>>

\* line 230
WLastOff ==
    /\ pc = "w_off2"
    /\ HwWriteCR(ClearBit(cr, CR_TXE))
    /\ pc' = "w_on2"
    /\ h' = Step(h)
    /\ UNCHANGED <<rxfifo, rsr, cancelReq, life, rdLocals, wrLocals, ret>>

\* a slip: bsc[BSC_CR] = CR_TXE in place of |=
WLastOn_assign ==
    /\ pc = "w_on2"
    /\ HwWriteCR(CR_TXE)
    /\ pc' = "w_clamp"
    /\ h' = Step([h EXCEPT !.toggles = @ + 1])
    /\ UNCHANGED <<rxfifo, rsr, cancelReq, life, rdLocals, wrLocals, ret>>

\* line 231
WLastOn ==
    /\ pc = "w_on2"
    /\ HwWriteCR(SetBit(cr, CR_TXE))
    /\ pc' = "w_clamp"
    /\ h' = Step([h EXCEPT !.toggles = @ + 1])
    /\ UNCHANGED <<rxfifo, rsr, cancelReq, life, rdLocals, wrLocals, ret>>

\* line 235
WReturn ==
    /\ pc = "w_clamp"
    /\ ret' = RetClamp(ret)
    /\ pc' = "w_done"
    /\ h' = Step(h)
    /\ UNCHANGED <<hw, cancelReq, life, rdLocals, wrLocals>>

(* ------------------------------------------------------------- caller *)
\* the call has returned ret; the caller goes on
Return ==
    /\ pc \in {"rp_done", "w_done"}
    /\ pc' = "idle"
    /\ bufNull' = FALSE
    /\ buf' = <<>>
    /\ len' = 0
    /\ read' = 0
    /\ addr' = 0
    /\ offset' = 0
    /\ byte' = 0
    /\ ret' = 0
    /\ h' = NoHist
    /\ UNCHANGED <<hw, cancelReq, life>>

(* -------------------------------------------- the master and the world *)
\* the master writes byte b to the slave
MasterWrite ==
    /\ pc # "cancelled"
    /\ HasBit(cr, CR_EN) /\ HasBit(cr, CR_RXE)
    /\ \E b \in RxBytes :
        IF Len(rxfifo) < FifoDepth
        THEN /\ rxfifo' = Append(rxfifo, b)
             /\ rsr' = rsr
             /\ h' = IF h.op = "read" THEN [h EXCEPT !.pushed = @ + 1] ELSE h
        ELSE /\ rsr' = SetBit(rsr, RSR_OE)
             /\ UNCHANGED <<rxfifo, h>>
    /\ UNCHANGED <<txfifo, txhold, cr, pc, cancelReq, life, rdLocals, wrLocals, ret>>

\* the master clocks one byte out of the slave
MasterRead ==
    /\ pc # "cancelled"
    /\ HasBit(cr, CR_EN) /\ HasBit(cr, CR_TXE)
    /\ IF txhold # <<>>
       THEN LET st == HwStage(cr, txfifo, <<>>)
            IN  /\ txfifo' = st[1]
                /\ txhold' = st[2]
                /\ rsr' = rsr
                /\ h' = IF h.op = "write" THEN [h EXCEPT !.sent = @ + 1] ELSE h
       ELSE /\ rsr' = SetBit(rsr, RSR_UE)
            /\ UNCHANGED <<txfifo, txhold, h>>
    /\ UNCHANGED <<rxfifo, cr, pc, cancelReq, life, rdLocals, wrLocals, ret>>

\* another thread calls pthread_cancel on the polling thread
Cancel ==
    /\ pc \notin {"idle", "cancelled"}
    /\ ~cancelReq
    /\ cancelReq' = TRUE
    /\ UNCHANGED <<hw, pc, rdLocals, wrLocals, ret, h, life>>

(* ---------------------------------------------------------- life cycle *)
\* what is left alone by a life-cycle call
pollState == <<cancelReq, rdLocals, wrLocals, ret, h>>

\* One read-modify-write statement on a word of the GPIO window:
\* gpio_reg[reg] = (gpio_reg[reg] & ~clr) | set.
Rmw(reg, clr, set) == [reg |-> reg, clr |-> clr, set |-> set]

\* what a read of word reg gives: a function-select word holds what was
\* written to it, any other word reads as zero
ReadWord(m, reg) == IF reg \in DOMAIN m THEN m[reg] ELSE 0

\* the value the statement o writes
RmwValue(m, o) == BitOr(BitClear(ReadWord(m, o.reg), o.clr), o.set)

\* the function-select words after the statements ops, in order
RECURSIVE ApplyRmw(_, _)
ApplyRmw(m, ops) ==
    IF ops = <<>>
    THEN m
    ELSE LET o == Head(ops)
         IN  ApplyRmw(IF o.reg \in DOMAIN m
                      THEN [m EXCEPT ![o.reg] = RmwValue(m, o)]
                      ELSE m,
                      Tail(ops))

\* the writes the statements ops make to the GPIO window, in order
RECURSIVE RmwLog(_, _)
RmwLog(m, ops) ==
    IF ops = <<>>
    THEN <<>>
    ELSE LET o == Head(ops)
         IN  << <<"gpio", o.reg, RmwValue(m, o)>> >>
             \o RmwLog(ApplyRmw(m, <<o>>), Tail(ops))

\* lines 77-84
gpio_set_mode(g, mode) ==
    LET reg == g \div GPIO_FUN_PER_REG
        shift == (g % GPIO_FUN_PER_REG) * GPIO_FUN_SHIFT
    IN  << Rmw(reg, GPIO_FUN_MASK * 2 ^ shift, 0),
           Rmw(reg, 0, mode * 2 ^ shift) >>

\* the function code of pin g in the function-select word v
FunField(v, g) ==
    (v \div 2 ^ ((g % GPIO_FUN_PER_REG) * GPIO_FUN_SHIFT))
        % (GPIO_FUN_MASK + 1)

\* the value last written to register reg of region rg by the writes ws
LastTo(ws, rg, reg, dflt) ==
    LET at == {i \in DOMAIN ws : ws[i][1] = rg /\ ws[i][2] = reg}
    IN  IF at = {}
        THEN dflt
        ELSE ws[CHOOSE i \in at : \A j \in at : j <= i][3]

\* lines 36-59
init_bcm_reg_mem ==
    /\ pc = "idle"
    /\ \E fd \in OpenResults, rb \in MmapResults, rg \in MmapResults :
        /\ mem_fd' = fd
        /\ IF fd < 0
           THEN /\ UNCHANGED <<bsc, gpio_reg>>
                /\ lc' = Called("init_bcm_reg_mem", <<>>, "false", <<>>)
                /\ sys' = [sys EXCEPT !.fdOpen = FALSE]
           ELSE
           /\ bsc' = rb
           /\ IF rb = "NULL"
              THEN /\ gpio_reg' = gpio_reg
                   /\ lc' = Called("init_bcm_reg_mem", <<>>, "false",
                                   << <<"close", 0, 0>> >>)
                   /\ sys' = [sys EXCEPT !.fdOpen = FALSE,
                                         !.bscLive = FALSE]
              ELSE /\ gpio_reg' = rg
                   \* line 51 tests bsc a second time, not gpio_reg
                   /\ IF rb = "NULL"
                      THEN /\ lc' = Called("init_bcm_reg_mem", <<>>, "false",
                                           << <<"munmap_bsc", 0, 0>>,
                                              <<"close", 0, 0>> >>)
                           /\ sys' = [sys EXCEPT
                                        !.badRel = TRUE,
                                        !.fdOpen = FALSE,
                                        !.bscLive = FALSE,
                                        !.gpioLive = (rg = "mapped")]
                      ELSE /\ lc' = Called("init_bcm_reg_mem", <<>>, "true",
                                           <<>>)
                           /\ sys' = [sys EXCEPT
                                        !.fdOpen = TRUE,
                                        !.bscLive = (rb = "mapped"),
                                        !.gpioLive = (rg = "mapped")]
    /\ UNCHANGED <<hw, pc, gpio, slv, pollState>>

\* lines 61-75
shutdown_bcm_reg_mem ==
    /\ pc = "idle"
    /\ bsc' = "NULL"
    /\ gpio_reg' = "NULL"
    /\ mem_fd' = -1
    /\ LET ub == IF bsc # "NULL" THEN << <<"munmap_bsc", 0, 0>> >> ELSE <<>>
           ug == IF gpio_reg # "NULL"
                 THEN << <<"munmap_gpio", 0, 0>> >> ELSE <<>>
           cl == IF mem_fd >= 0 THEN << <<"close", 0, 0>> >> ELSE <<>>
       IN  /\ lc' = Called("shutdown_bcm_reg_mem", <<>>, "none",
                           ub \o ug \o cl)
           /\ sys' = [sys EXCEPT
                        !.badRel = \/ @
                                   \/ (bsc # "NULL" /\ ~sys.bscLive)
                                   \/ (gpio_reg # "NULL" /\ ~sys.gpioLive)
                                   \/ (mem_fd >= 0 /\ ~sys.fdOpen),
                        !.bscLive = IF bsc # "NULL" THEN FALSE ELSE @,
                        !.gpioLive = IF gpio_reg # "NULL" THEN FALSE ELSE @,
                        !.fdOpen = IF mem_fd >= 0 THEN FALSE ELSE @]
    /\ UNCHANGED <<hw, pc, gpio, slv, pollState>>

\* a slip: the device enabled before the slave address is programmed
SlvInitWrites_enableFirst(a) ==
    << <<"bsc", BSC_CR, CR_BRK>>,
       <<"bsc", BSC_RSR, 0>>,
       <<"bsc", BSC_IMSC, IrqAll>>,
       <<"bsc", BSC_ICR, IrqAll>>,
       <<"bsc", BSC_CR, CR_TXE + CR_RXE + CR_I2C + CR_EN>>,
       <<"bsc", BSC_SLV, a \div 2>> >>

\* lines 97-104: the writes to the BSC window, in order
SlvInitWrites(a) ==
    << <<"bsc", BSC_CR, CR_BRK>>,
       <<"bsc", BSC_RSR, 0>>,
       <<"bsc", BSC_IMSC, IrqAll>>,
       <<"bsc", BSC_ICR, IrqAll>>,
       <<"bsc", BSC_SLV, a \div 2>>,
       <<"bsc", BSC_CR, CR_TXE + CR_RXE + CR_I2C + CR_EN>> >>

\* lines 86-107
init_bsc_i2c_slv ==
    /\ pc = "idle"
    /\ \E a \in SlvAddrs :
        LET ops == gpio_set_mode(GPIO_SDA, GPIO_FUN_ALT3)
                   \o gpio_set_mode(GPIO_SCL, GPIO_FUN_ALT3)
            ws == SlvInitWrites(a)
        IN  IF bsc = "NULL"
            THEN /\ lc' = Called("init_bsc_i2c_slv", <<a>>, "false", <<>>)
                 /\ UNCHANGED <<hw, pc, gpio, slv>>
            ELSE IF gpio_reg # "mapped"
            THEN /\ pc' \in UBPcs
                 /\ lc' = Called("init_bsc_i2c_slv", <<a>>, "none", <<>>)
                 /\ UNCHANGED <<hw, gpio, slv>>
            ELSE IF bsc # "mapped"
            THEN /\ pc' \in UBPcs
                 /\ gpio' = ApplyRmw(gpio, ops)
                 /\ lc' = Called("init_bsc_i2c_slv", <<a>>, "none",
                                 RmwLog(gpio, ops))
                 /\ UNCHANGED <<hw, slv>>
            ELSE /\ gpio' = ApplyRmw(gpio, ops)
                 /\ HwWriteCR(LastTo(ws, "bsc", BSC_CR, cr))
                 /\ rsr' = LastTo(ws, "bsc", BSC_RSR, rsr)
                 /\ slv' = LastTo(ws, "bsc", BSC_SLV, slv)
                 /\ lc' = Called("init_bsc_i2c_slv", <<a>>, "true",
                                 RmwLog(gpio, ops) \o ws)
                 /\ UNCHANGED <<rxfifo, pc>>
    /\ UNCHANGED <<mem_fd, bsc, gpio_reg, sys, pollState>>

\* lines 109-138
bcm_set_gpio_out ==
    /\ pc = "idle"
    /\ \E g \in SetPins, st \in SetStates :
        LET lvl == IF st = GPIO_STATE_LOW THEN GPCLR0 ELSE GPSET0
            ops == IF st = GPIO_STATE_FLOAT
                   THEN gpio_set_mode(g, GPIO_FUN_IN)
                   ELSE <<Rmw(lvl, 0, 2 ^ g)>>
                        \o gpio_set_mode(g, GPIO_FUN_OUT)
        IN  IF \/ gpio_reg = "NULL"
               \/ g < 0 \/ g >= GPIO_COUNT
               \/ st \notin {GPIO_STATE_FLOAT, GPIO_STATE_LOW, GPIO_STATE_HIGH}
            THEN /\ lc' = Called("bcm_set_gpio_out", <<g, st>>, "false", <<>>)
                 /\ UNCHANGED <<pc, gpio>>
            ELSE IF gpio_reg # "mapped"
            THEN /\ pc' \in UBPcs
                 /\ lc' = Called("bcm_set_gpio_out", <<g, st>>, "none", <<>>)
                 /\ gpio' = gpio
            ELSE /\ gpio' = ApplyRmw(gpio, ops)
                 /\ lc' = Called("bcm_set_gpio_out", <<g, st>>, "true",
                                 RmwLog(gpio, ops))
                 /\ pc' = pc
    /\ UNCHANGED <<hw, mem_fd, bsc, gpio_reg, slv, sys, pollState>>

\* lines 140-143
shutdown_bsc_i2c_slv ==
    /\ pc = "idle"
    /\ IF bsc # "mapped"
       THEN /\ pc' \in UBPcs
            /\ lc' = Called("shutdown_bsc_i2c_slv", <<>>, "none", <<>>)
            /\ UNCHANGED <<txfifo, txhold, cr>>
       ELSE /\ HwWriteCR(0)
            /\ lc' = Called("shutdown_bsc_i2c_slv", <<>>, "none",
                            << <<"bsc", BSC_CR, 0>> >>)
            /\ pc' = pc
    /\ UNCHANGED <<rxfifo, rsr, mem_fd, bsc, gpio_reg, gpio, slv, sys,
                   pollState>>

\* lines 145-147; the bus may or may not be busy receiving
bsc_i2c_receiving ==
    /\ pc = "idle"
    /\ IF bsc # "mapped"
       THEN /\ pc' \in UBPcs
            /\ lc' = Called("bsc_i2c_receiving", <<>>, "none", <<>>)
       ELSE /\ \E busy \in {0, FR_RXBUSY} :
                lc' = Called("bsc_i2c_receiving", <<>>,
                             IF HasBit(FR + busy, FR_RXBUSY)
                             THEN "true" ELSE "false",
                             <<>>)
            /\ pc' = pc
    /\ UNCHANGED <<hw, mem_fd, bsc, gpio_reg, gpio, slv, sys, pollState>>

(* ------------------------------------------------------ specification *)
Next ==
    \/ CallRead
    \/ RpTestCancel0
    \/ RpCheckArgs
    \/ RpLoopTest
    \/ RpTestCancel
    \/ RpCheckOE
    \/ RpClearOE
    \/ RpPop
    \/ CallWrite
    \/ WTestCancel0
    \/ WOuterTest
    \/ WTestCancel1
    \/ WInnerTest
    \/ WTestCancel2
    \/ WCheckUE
    \/ WClearUE
    \/ WCallback
    \/ WWriteDR
    \/ WSleep
    \/ WComputeRet
    \/ WFlushTest
    \/ WFlushOff
    \/ WFlushOn
    \/ WLastOff
    \/ WLastOn
    \/ WReturn
    \/ Return
    \/ MasterWrite
    \/ MasterRead
    \/ Cancel

Spec == Init /\ [][Next]_vars

\* the caller enters bsc_i2c_read_poll with the BSC window not mapped
CallReadUnmapped == bsc # "mapped" /\ CallRead

\* the caller enters bsc_i2c_write with the BSC window not mapped
CallWriteUnmapped == bsc # "mapped" /\ CallWrite

NextLife ==
    \/ init_bcm_reg_mem
    \/ shutdown_bcm_reg_mem
    \/ init_bsc_i2c_slv
    \/ bcm_set_gpio_out
    \/ shutdown_bsc_i2c_slv
    \/ bsc_i2c_receiving
    \/ CallReadUnmapped
    \/ RpTestCancel0
    \/ RpCheckArgs
    \/ RpLoopTest
    \/ CallWriteUnmapped
    \/ WTestCancel0
    \/ WOuterTest
    \/ Return

LifeSpec == InitLife /\ [][NextLife]_vars

(* ------------------------------------------------- positions of a call *)
\* inside the loops of lines 182-203
FillPcs ==
    {"w_outer", "w_tc1", "w_inner", "w_tc2", "w_ue", "w_clr", "w_cb", "w_dr",
     "w_sleep"}

\* past the outer loop: lines 208-235
PostLoopPcs ==
    {"w_ret", "w_fl", "w_off", "w_on", "w_off2", "w_on2", "w_clamp", "w_done"}

\* the pthread_testcancel calls inside the loops: lines 183 and 186
CancelPcs == {"w_tc1", "w_tc2"}

\* No path through the loops passes a statement twice without passing a
\* cancellation point; the longest runs from line 188 over a full FIFO at
\* line 185 to line 183.
CancelLatency == Cardinality(FillPcs \ CancelPcs)

Min(a, b) == IF a < b THEN a ELSE b

(* ================================================================ claims *)

\* C1: the value bsc_i2c_write returns is never negative and never greater
\* than the number of callback invocations that returned true in that call.
C1_RetWithinSupplied ==
    pc = "w_done" => (0 <= ret /\ ret <= h.cbTrue)

C1_Witness ==
    pc = "w_done" /\ h.cbTrue >= 2 /\ h.sent >= 1 /\ ret >= 1

\* C2 (as the claim states it): the value bsc_i2c_write returns equals the
\* number of bytes the master clocked out of the transmit path during the
\* call.
C2_RetEqualsSent ==
    pc = "w_done" => ret = h.sent

\* C3: the flush makes at most (TX FIFO level at flush start + 1) off/on
\* toggles of transmit enable - every pass of the loop has a level left to
\* use up - and when bsc_i2c_write returns nothing is left in the transmit
\* path.
C3_FlushBounded ==
    /\ h.lvl0 >= 0 => h.toggles <= h.lvl0 + 1
    /\ (pc = "w_fl" /\ h.lvl0 >= 0) => h.toggles + Len(txfifo) <= h.lvl0
    /\ pc \in {"w_off", "w_on"} => h.toggles + 1 <= h.lvl0
    /\ pc \in {"w_clamp", "w_done"} =>
          (txfifo = <<>> /\ txhold = <<>> /\ HasBit(FR, FR_TXFE))

C3_Witness ==
    pc = "w_done" /\ h.lvl0 = FifoDepth /\ h.toggles = FifoDepth + 1

\* C4: bsc_i2c_write gets past its outer loop, and so returns, only with the
\* receive FIFO non-empty; from inside the loops a step leads back into them,
\* to cancellation, or - with the receive FIFO non-empty - to line 208.
C4_LeavesOnlyOnMasterWrite ==
    /\ [](pc \in PostLoopPcs => rxfifo # <<>>)
    /\ [][(pc \in FillPcs) =>
            (pc' \in FillPcs \cup {"cancelled"}
               \/ (pc' = "w_ret" /\ ~RX_EMPTY))]_vars

C4_Witness ==
    pc = "w_done" /\ h.falseAt >= 0 /\ h.cbTrue >= 1 /\ rxfifo # <<>>

\* C5 (as the claim states it): once the callback has returned false, no
\* further byte is written to the data register in that call.
C5_NoDataAfterFalse ==
    (h.op = "write" /\ h.falseAt >= 0) => offset = h.falseAt

\* C6: while the master has not written and the callback has not returned
\* false, bsc_i2c_write is not past its loops; with a cancellation request
\* pending the thread takes fewer than CancelLatency steps inside the loops
\* and ends at a cancellation point with its CancelLatency-th step at the
\* latest.
C6_CancelBounded ==
    /\ (h.op = "write" /\ rxfifo = <<>> /\ h.falseAt < 0) =>
          pc \notin PostLoopPcs
    /\ (h.op = "write" /\ pc \in FillPcs) => h.since < CancelLatency
    /\ (h.op = "write" /\ pc = "cancelled") =>
          (cancelReq /\ h.since <= CancelLatency)

C6_Witness ==
    /\ pc = "cancelled" /\ h.op = "write" /\ h.since = CancelLatency
    /\ rxfifo = <<>> /\ h.falseAt < 0 /\ h.cbTrue >= 1

\* C7: bsc_i2c_read_poll called with len == 0 or buf == NULL makes no
\* register access, stores nothing, never enters its loop, and returns 0.
C7_NoAccessOnEmptyArgs ==
    (h.op = "read" /\ (h.len0 = 0 \/ bufNull)) =>
        /\ h.regAcc = 0
        /\ buf = <<>>
        /\ pc \in {"rp_tc0", "rp_chk", "rp_done", "cancelled"}
        /\ pc = "rp_done" => ret = 0

C7_Witness ==
    pc = "rp_done" /\ bufNull /\ h.len0 > 0 /\ rxfifo # <<>> /\ ret = 0

\* C8 (as the claim states it): bsc_i2c_read_poll never returns more than
\* len, nor more than the receive FIFO held at the moment of the call.
C8_AtMostHeldAtCall ==
    pc = "rp_done" => (ret <= h.len0 /\ ret <= Len(h.rx0))

\* C8 (amended): bsc_i2c_read_poll never returns more than len, nor more than
\* the receive FIFO held at the moment of the call plus the bytes the master
\* pushed into it while the call ran.
C8_AtMostHeldPlusPushed ==
    pc = "rp_done" => (ret <= h.len0 /\ ret <= Len(h.rx0) + h.pushed)

C8_Witness ==
    pc = "rp_done" /\ h.pushed >= 1 /\ ret > Len(h.rx0) /\ ret = h.len0

\* C9: with b1..bn in the receive FIFO at the call and nothing pushed during
\* it, bsc_i2c_read_poll(buf, len) returns min(len, n), has stored the first
\* min(len, n) bytes in buf in FIFO order, and has left the others in the
\* FIFO; it has not polled: per byte one read each of the flag, status and
\* data registers (and a status read and write per overrun cleared), and at
\* most one more read of the flag register.
C9_ReadPollResult ==
    (pc = "rp_done" /\ ~bufNull /\ h.pushed = 0) =>
        LET n == Len(h.rx0)
            k == Min(h.len0, n)
        IN  /\ ret = k
            /\ buf = SubSeq(h.rx0, 1, k)
            /\ rxfifo = SubSeq(h.rx0, k + 1, n)
            /\ h.regAcc <= 3 * k + 2 * h.oeSeen + 1

C9_Witness ==
    /\ pc = "rp_done" /\ h.pushed = 0 /\ h.rx0 = <<170, 187>> /\ h.len0 = 3
    /\ ret = 2 /\ buf = <<170, 187>> /\ rxfifo = <<>>

\* C10: when bsc_i2c_read_poll finds the overrun flag set before a pop, its
\* next step clears that flag and leaves the underrun flag as it was, the
\* step after pops the byte at the head of the receive FIFO into buf and
\* counts it, and the loop goes on.
C10_OverrunClearedByteKept ==
    /\ [][(pc = "rp_oe" /\ pc' # pc /\ HasBit(rsr, RSR_OE)) =>
              pc' = "rp_clr"]_vars
    /\ [][(pc = "rp_clr" /\ pc' # pc) =>
              (pc' = "rp_pop"
                 /\ HasBit(rsr, RSR_OE) /\ ~HasBit(rsr', RSR_OE)
                 /\ (HasBit(rsr', RSR_UE) <=> HasBit(rsr, RSR_UE))
                 /\ rxfifo' = rxfifo)]_vars
    /\ [][(pc = "rp_pop" /\ pc' # pc) =>
              (pc' = "rp_loop"
                 /\ rxfifo # <<>>
                 /\ buf' = Append(buf, Head(rxfifo))
                 /\ read' = read + 1)]_vars
    /\ [](pc = "rp_done" /\ ~bufNull => ret = Len(buf))

C10_Witness ==
    /\ pc = "rp_done" /\ h.oeSeen >= 1 /\ ret >= 1
    /\ HasBit(rsr, RSR_UE) /\ ~HasBit(rsr, RSR_OE)

\* C11: when bsc_i2c_write finds the underrun flag set in its inner loop, its
\* next step clears that flag and leaves the overrun flag, the transmit path
\* and the count as they were, and the callback is called next; the count
\* changes only with a write to the data register, by one, and that write
\* puts one byte more into the transmit path.
C11_UnderrunClearedCountExact ==
    /\ [][(pc = "w_ue" /\ pc' # pc /\ HasBit(rsr, RSR_UE)) =>
              pc' = "w_clr"]_vars
    /\ [][(pc = "w_clr" /\ pc' # pc) =>
              (pc' = "w_cb"
                 /\ HasBit(rsr, RSR_UE) /\ ~HasBit(rsr', RSR_UE)
                 /\ (HasBit(rsr', RSR_OE) <=> HasBit(rsr, RSR_OE))
                 /\ offset' = offset
                 /\ txfifo' = txfifo /\ txhold' = txhold)]_vars
    /\ [][(pc = "w_dr" /\ pc' # pc) =>
              (pc' = "w_inner"
                 /\ offset' = offset + 1
                 /\ Len(txfifo') + Len(txhold')
                      = Len(txfifo) + Len(txhold) + 1)]_vars
    /\ [][(h.op = "write" /\ h'.op = "write" /\ offset' # offset) =>
              pc \in {"w_dr", "w_tc0"}]_vars

C11_Witness ==
    /\ pc = "w_inner" /\ h.ueSeen /\ offset >= 2 /\ offset = h.cbTrue
    /\ HasBit(rsr, RSR_OE) /\ ~HasBit(rsr, RSR_UE)

\* C18: within one bsc_i2c_write call started at address a, the callback
\* invocation number k (from 0) receives address (a + k) mod 2^16 whatever the
\* earlier invocations returned; the count of queued bytes goes up only with
\* invocations that return true; and the callback is reached, and its byte
\* written to the data register, only with the transmit FIFO not full.
C18_AddressPerCall ==
    /\ h.op = "write" =>
          /\ addr = (h.addr0 + h.calls) % AddrModulus
          /\ offset = h.cbTrue - (IF pc = "w_dr" THEN 1 ELSE 0)
    /\ pc = "w_dr" =>
          byte = CbByte((h.addr0 + h.calls - 1) % AddrModulus)
    /\ pc \in {"w_cb", "w_dr"} => Len(txfifo) < FifoDepth

C18_Witness ==
    /\ pc = "w_dr" /\ h.addr0 = AddrModulus - 2
    /\ h.calls = 4 /\ h.cbTrue = 2
    /\ addr = 2 /\ byte = CbByte(1)

\* C19 as stated: bsc_i2c_write returns max(0, q - L - 1) with L the level of
\* the transmit FIFO when the call returns.
C19_RetFromFinalLevel ==
    pc = "w_done" => ret = RetClamp(offset - GET_FR_TXFLEVEL - 1)

\* C19: bsc_i2c_write returns max(0, q - L - 1), where q is the number of
\* bytes it wrote to the data register and L is the transmit FIFO level read
\* after the fill loop and before the flush (line 208); the flush changes
\* neither q nor the value, and a negative value is returned as 0.
C19_RetFromLevelRead ==
    /\ [][(pc = "w_ret" /\ pc' # pc) =>
              (pc' = "w_fl" /\ ret' = offset - GET_FR_TXFLEVEL - 1)]_vars
    /\ [][(pc \in PostLoopPcs \ {"w_ret", "w_clamp", "w_done"}) =>
              (ret' = ret /\ offset' = offset)]_vars
    /\ [][(pc = "w_clamp" /\ pc' # pc) =>
              (pc' = "w_done" /\ offset' = offset
                 /\ ret' = (IF ret < 0 THEN 0 ELSE ret))]_vars

C19_Witness ==
    /\ pc = "w_done" /\ ret = 0
    /\ h.calls = 0 /\ offset = 0 /\ rxfifo # <<>>

\* C20: during bsc_i2c_write every bit of the control register other than
\* transmit-enable keeps the value it had when the call began; after a toggle
\* pair, and when the call returns, transmit-enable is set, so receive-enable,
\* I2C mode and device-enable are still set after the call.
C20_OnlyTxeToggles ==
    /\ h.op = "write" => ClearBit(cr, CR_TXE) = ClearBit(h.cr0, CR_TXE)
    /\ (pc \in {"w_fl", "w_clamp", "w_done"} /\ h.toggles >= 1) =>
          HasBit(cr, CR_TXE)
    /\ pc = "w_done" => (h.toggles >= 1 /\ cr = h.cr0)
    /\ pc \in {"idle", "w_done"} =>
          (HasBit(cr, CR_RXE) /\ HasBit(cr, CR_I2C) /\ HasBit(cr, CR_EN))

C20_Witness ==
    /\ pc = "w_done" /\ h.toggles >= 3
    /\ cr = CR_TXE + CR_RXE + CR_I2C + CR_EN

(* ------------------------------------------------- claims on LifeSpec *)
\* C12: when init_bcm_reg_mem returns true, the descriptor is open and both
\* the BSC window and the GPIO window are mapped; when /dev/mem cannot be
\* opened it returns false.
C12_InitReportsFailure ==
    lc.op = "init_bcm_reg_mem" =>
        /\ lc.ret = "true" =>
              (sys.fdOpen /\ bsc = "mapped" /\ gpio_reg = "mapped")
        /\ mem_fd < 0 => lc.ret = "false"

\* C13: init_bsc_i2c_slv returns true exactly when both windows were mapped
\* at the call; otherwise it returns false and has written no register.
C13_SlvInitNeedsMapped ==
    lc.op = "init_bsc_i2c_slv" =>
        IF lc.pre.bsc = "mapped" /\ lc.pre.gpio_reg = "mapped"
        THEN lc.ret = "true"
        ELSE lc.ret = "false" /\ lc.log = <<>>

\* C14: bsc_i2c_read_poll, bsc_i2c_write, bsc_i2c_receiving and
\* shutdown_bsc_i2c_slv, called while the BSC window is not mapped, make no
\* access through the unmapped pointer.
C14_SequencingReported ==
    /\ (h.op \in {"read", "write"} /\ bsc # "mapped") => pc \notin UBPcs
    /\ lc.op \in {"bsc_i2c_receiving", "shutdown_bsc_i2c_slv"} =>
          lc.pre.bsc = "mapped"

\* C15: bcm_set_gpio_out returns true when the pin is in [0, 28), the state is
\* Float, Low or High and the GPIO window is mapped; otherwise it returns
\* false and has written no register.
C15_GpioOutChecks ==
    lc.op = "bcm_set_gpio_out" =>
        IF /\ lc.arg[1] >= 0 /\ lc.arg[1] < GPIO_COUNT
           /\ lc.arg[2] \in {GPIO_STATE_FLOAT, GPIO_STATE_LOW, GPIO_STATE_HIGH}
           /\ lc.pre.gpio_reg = "mapped"
        THEN lc.ret = "true"
        ELSE lc.ret = "false" /\ lc.log = <<>>

\* C16: close and munmap are never called on a descriptor or mapping the
\* process does not hold, and shutdown_bcm_reg_mem unmaps nothing when no
\* window is mapped.
C16_ReleaseOncePerAcquire ==
    /\ ~sys.badRel
    /\ (/\ lc.op = "shutdown_bcm_reg_mem"
        /\ lc.pre.bsc # "mapped" /\ lc.pre.gpio_reg # "mapped") =>
          \A i \in DOMAIN lc.log : lc.log[i][1] = "close"

\* C17: a successful init_bsc_i2c_slv(a) first sets pins 18 and 19 to
\* function code 7, then writes control := break, status := 0, interrupt
\* mask := 0xF, interrupt clear := 0xF, slave address := a >> 1 and last
\* control := TXE | RXE | I2C | EN; shutdown_bsc_i2c_slv makes the one write
\* control := 0, and init_bsc_i2c_slv called after it on mapped windows
\* succeeds.
C17_InitWriteOrder ==
    /\ (lc.op = "init_bsc_i2c_slv" /\ lc.ret = "true") =>
          /\ Len(lc.log) = 10
          /\ \A i \in 1 .. 4 :
                lc.log[i][1] = "gpio" /\ lc.log[i][2] = 1
          /\ FunField(lc.log[2][3], 18) = 7
          /\ FunField(lc.log[4][3], 18) = 7
          /\ FunField(lc.log[4][3], 19) = 7
          /\ gpio[1] = lc.log[4][3]
          /\ SubSeq(lc.log, 5, 10) =
                << <<"bsc", 3, 128>>,
                   <<"bsc", 1, 0>>,
                   <<"bsc", 6, 15>>,
                   <<"bsc", 9, 15>>,
                   <<"bsc", 2, lc.arg[1] \div 2>>,
                   <<"bsc", 3, 256 + 512 + 4 + 1>> >>
          /\ slv = lc.arg[1] \div 2
          /\ cr = 256 + 512 + 4 + 1
    /\ (lc.op = "shutdown_bsc_i2c_slv" /\ lc.pre.bsc = "mapped") =>
          /\ lc.log = << <<"bsc", 3, 0>> >>
          /\ cr = 0
    /\ (/\ lc.op = "init_bsc_i2c_slv" /\ lc.prevStop
        /\ lc.pre.bsc = "mapped" /\ lc.pre.gpio_reg = "mapped") =>
          lc.ret = "true"

C17_Witness ==
    /\ lc.op = "init_bsc_i2c_slv" /\ lc.ret = "true" /\ lc.prevStop
    /\ FunField(lc.log[1][3], 19) = 7
    /\ lc.arg = <<PolledAddr>> /\ slv = 66
    /\ pc = "idle"

====
